---- MODULE Spec2Model ----
(***************************************************************************)
(* json-typed: type guards, deep equality and deep clone over JSON values  *)
(* extended with `undefined` (src/src/index.ts).                           *)
(*                                                                         *)
(* JavaScript arrays and objects have identity, and `===` on them compares *)
(* identity, so values live in a heap: a sequence of nodes, a node's id    *)
(* being its index.  A value is a primitive, null, undefined, a function   *)
(* (the example of a non-JSON member) or a reference to a heap node.       *)
(***************************************************************************)
EXTENDS Integers, Sequences, FiniteSets, TLC

\* ------------------------------------------------------------------ bounds
MaxNodes   == 4      \* arrays and objects constructed before a comparison
MaxSrcNodes == 3     \* arrays and objects constructed before a guard or a clone
MaxLen     == 2      \* longest array literal the construction step writes
MaxEntries == 3      \* array elements plus object properties written by construction

Keys == {"a", "b"}
KeyOrder == <<"a", "b">>

\* ------------------------------------------------------------------ values
Undef    == [t |-> "undefined", v |-> 0]
Null     == [t |-> "null", v |-> 0]
Fn       == [t |-> "function", v |-> 0]
\* numbers are JSON numbers: NaN, the one value not === to itself, is not one
Num(n)   == [t |-> "number", v |-> n]
Str(s)   == [t |-> "string", v |-> s]
Bool(b)  == [t |-> "boolean", v |-> b]
Ref(i)   == [t |-> "ref", v |-> i]

\* members of the JSON trees the comparisons are run on
JsonAtoms == {Undef, Null, Num(1), Num(2)}
\* members of the values the guards and clone are run on: a function is the
\* member outside the JSON variant set
MemberAtoms == {Undef, Null, Num(1), Fn}
\* values a call may receive at the top level besides heap references
ArgAtoms == {Undef, Null, Num(1), Num(2), Str("s"), Bool(TRUE), Fn}
\* values an assignment into the clone writes
MutationValues == {Null, Num(2)}

ArrNode(es) == [kind |-> "array", elems |-> es, props |-> [k \in {} |-> Undef]]
ObjNode(ps) == [kind |-> "object", elems |-> <<>>, props |-> ps]

Refs(h) == {Ref(i) : i \in 1..Len(h)}
Args(h) == ArgAtoms \cup Refs(h)

\* heap: the arrays and objects; held: the ids of the nodes the caller holds
\* itself (those that are no member of another node); op: the call made;
\* eqTable, guardTable, cloneCall: what the call returned
VARIABLES heap, held, op, eqTable, guardTable, cloneCall

vars == <<heap, held, op, eqTable, guardTable, cloneCall>>

\* ------------------------------------------------- is-runtype / typeof layer
\* The guards of the is-runtype package, by their typeof / Array.isArray meaning.
\* Whether runtype.isObject accepts a function is not visible in this repository
\* (isJsonObject excludes functions itself); no property below depends on it.
RtIsArray(h, x)    == x.t = "ref" /\ h[x.v].kind = "array"
RtIsObject(h, x)   == x.t = "ref"
RtIsFunction(h, x) == x.t = "function"
RtIsString(x)      == x.t = "string"
RtIsNumber(x)      == x.t = "number"
RtIsBoolean(x)     == x.t = "boolean"

\* ------------------------------------------------------------ narrowing guards
isObject(h, x)  == RtIsObject(h, x) /\ ~RtIsArray(h, x)
isArray(h, x)   == RtIsArray(h, x)
isPrimitive(x)  == RtIsString(x) \/ RtIsNumber(x) \/ RtIsBoolean(x)

\* ----------------------------------------------------------- validating guards
isJsonPrimitive(x) == RtIsString(x) \/ RtIsNumber(x) \/ RtIsBoolean(x)

RECURSIVE isJsonValue(_, _)
RECURSIVE isJsonObject(_, _)
RECURSIVE isJsonArray(_, _)

ValuesOf(n) == {n.props[k] : k \in DOMAIN n.props}
ElemsOf(n)  == {n.elems[i] : i \in 1..Len(n.elems)}

\* a validator that looks at the top-level shape only
isJsonObjectShallow(h, x) == RtIsObject(h, x) /\ ~RtIsArray(h, x) /\ ~RtIsFunction(h, x)

isJsonObject(h, x) ==
    /\ RtIsObject(h, x)
    /\ ~RtIsArray(h, x)
    /\ ~RtIsFunction(h, x)
    /\ \A m \in ValuesOf(h[x.v]) : isJsonValue(h, m)

isJsonArray(h, x) ==
    /\ RtIsArray(h, x)
    /\ \A m \in ElemsOf(h[x.v]) : isJsonValue(h, m)

isJsonValue(h, x) ==
    \/ x = Undef
    \/ x = Null
    \/ isJsonPrimitive(x)
    \/ isJsonObject(h, x)
    \/ isJsonArray(h, x)

\* --------------------------------------------------------------------- equals
\* `===`: primitives by value, references by identity
StrictEq(x, y) == x = y

\* a[key]: undefined when the object has no such key
Get(n, k) == IF k \in DOMAIN n.props THEN n.props[k] ELSE Undef

\* a comparison that never filters the keys, whatever the mode
FilteredKeysUnfiltered(n, exactOptionalProperties) == DOMAIN n.props

\* Object.keys(o).filter(key => exactOptionalProperties || o[key] !== undefined)
FilteredKeys(n, exactOptionalProperties) ==
    {k \in DOMAIN n.props : exactOptionalProperties \/ n.props[k] # Undef}

RECURSIVE equals(_, _, _, _)
RECURSIVE equalsObject(_, _, _, _)
RECURSIVE equalsArray(_, _, _, _)

equalsObject(h, a, b, exactOptionalProperties) ==
    LET keysA == FilteredKeys(h[a.v], exactOptionalProperties)
        keysB == FilteredKeys(h[b.v], exactOptionalProperties)
    IN  IF Cardinality(keysA) # Cardinality(keysB)
        THEN FALSE
        ELSE \A key \in keysA :
                LET valueA == Get(h[a.v], key)
                    valueB == Get(h[b.v], key)
                IN  \/ StrictEq(valueA, valueB)
                    \/ /\ valueA # Undef
                       /\ valueB # Undef
                       /\ equals(h, valueA, valueB, FALSE)

equalsArray(h, a, b, exactOptionalProperties) ==
    IF Len(h[a.v].elems) # Len(h[b.v].elems)
    THEN FALSE
    ELSE \A index \in 1..Len(h[a.v].elems) :
            equals(h, h[a.v].elems[index], h[b.v].elems[index], exactOptionalProperties)

equals(h, a, b, exactOptionalProperties) ==
    IF StrictEq(a, b) THEN TRUE
    ELSE IF isArray(h, a) /\ isArray(h, b) THEN equalsArray(h, a, b, exactOptionalProperties)
    ELSE IF isObject(h, a) /\ isObject(h, b) THEN equalsObject(h, a, b, exactOptionalProperties)
    ELSE FALSE

\* ---------------------------------------------------------------------- clone
\* clone returns the new heap together with the value: every array or object it
\* builds is a fresh node appended to the heap (children before their parent).
RECURSIVE clone(_, _, _)
RECURSIVE cloneElems(_, _, _, _)
RECURSIVE cloneEntries(_, _, _, _)

\* a clone that drops undefined properties in both modes
KeepEntryNever(x, exactOptionalProperties) == x # Undef

\* a clone that keeps undefined properties in both modes
KeepEntryAlways(x, exactOptionalProperties) == TRUE

\* .filter(([k, v]) => exactOptionalProperties || v !== undefined)
KeepEntry(x, exactOptionalProperties) == exactOptionalProperties \/ x # Undef

\* a shallow copy: the new array holds the members of the old one
cloneElemsShared(h, es, i, exactOptionalProperties) == [heap |-> h, out |-> es]

\* value.map(v => clone(v, exactOptionalProperties)), from element i on
cloneElems(h, es, i, exactOptionalProperties) ==
    IF i > Len(es) THEN [heap |-> h, out |-> <<>>]
    ELSE LET c    == clone(h, es[i], exactOptionalProperties)
             rest == cloneElems(c.heap, es, i + 1, exactOptionalProperties)
         IN  [heap |-> rest.heap, out |-> <<c.val>> \o rest.out]

\* Object.entries(value).filter(...).map(...), from the i-th key on; out is the
\* set of [key, value] pairs handed to Object.fromEntries
cloneEntries(h, ps, i, exactOptionalProperties) ==
    IF i > Len(KeyOrder) THEN [heap |-> h, out |-> {}]
    ELSE LET k == KeyOrder[i]
         IN  IF k \notin DOMAIN ps \/ ~KeepEntry(ps[k], exactOptionalProperties)
             THEN cloneEntries(h, ps, i + 1, exactOptionalProperties)
             ELSE LET c == IF ps[k] # Undef
                           THEN clone(h, ps[k], exactOptionalProperties)
                           ELSE [heap |-> h, val |-> ps[k]]
                      rest == cloneEntries(c.heap, ps, i + 1, exactOptionalProperties)
                  IN  [heap |-> rest.heap, out |-> {<<k, c.val>>} \cup rest.out]

\* Object.fromEntries
FromEntries(es) ==
    [k \in {e[1] : e \in es} |-> (CHOOSE e \in es : e[1] = k)[2]]

\* a clone that dispatches on the narrowing guards, without validating
cloneNarrowing(h, value, exactOptionalProperties) ==
    IF isArray(h, value)
    THEN LET r == cloneElems(h, h[value.v].elems, 1, exactOptionalProperties)
         IN  [heap |-> Append(r.heap, ArrNode(r.out)), val |-> Ref(Len(r.heap) + 1)]
    ELSE IF isObject(h, value)
    THEN LET r == cloneEntries(h, h[value.v].props, 1, exactOptionalProperties)
         IN  [heap |-> Append(r.heap, ObjNode(FromEntries(r.out))), val |-> Ref(Len(r.heap) + 1)]
    ELSE [heap |-> h, val |-> value]

clone(h, value, exactOptionalProperties) ==
    IF isJsonArray(h, value)
    THEN LET r == cloneElems(h, h[value.v].elems, 1, exactOptionalProperties)
         IN  [heap |-> Append(r.heap, ArrNode(r.out)), val |-> Ref(Len(r.heap) + 1)]
    ELSE IF isJsonObject(h, value)
    THEN LET r == cloneEntries(h, h[value.v].props, 1, exactOptionalProperties)
         IN  [heap |-> Append(r.heap, ObjNode(FromEntries(r.out))), val |-> Ref(Len(r.heap) + 1)]
    ELSE [heap |-> h, val |-> value]

\* ------------------------------------------------------------- heap structure
RECURSIVE Reach(_, _)
\* ids of the array and object nodes reachable from a value
Reach(h, x) ==
    IF x.t # "ref" THEN {}
    ELSE {x.v} \cup UNION {Reach(h, m) : m \in ValuesOf(h[x.v]) \cup ElemsOf(h[x.v])}

\* ids of the nodes a node holds as members
MemberIds(n) == {m.v : m \in {q \in ValuesOf(n) \cup ElemsOf(n) : q.t = "ref"}}

NodeEntries(n) == Len(n.elems) + Cardinality(DOMAIN n.props)

RECURSIVE HeapEntries(_, _)
HeapEntries(h, i) == IF i = 0 THEN 0 ELSE NodeEntries(h[i]) + HeapEntries(h, i - 1)

\* the tree below a value, written without identities (for comparing snapshots)
RECURSIVE Tree(_, _)
Tree(h, x) ==
    IF x.t # "ref" THEN x
    ELSE [t |-> h[x.v].kind,
          v |-> [elems |-> [i \in 1..Len(h[x.v].elems) |-> Tree(h, h[x.v].elems[i])],
                 props |-> [k \in DOMAIN h[x.v].props |-> Tree(h, h[x.v].props[k])]]]

\* the tree below a value with every undefined-valued property removed
RECURSIVE StripTree(_, _)
StripTree(h, x) ==
    IF x.t # "ref" THEN x
    ELSE [t |-> h[x.v].kind,
          v |-> [elems |-> [i \in 1..Len(h[x.v].elems) |-> StripTree(h, h[x.v].elems[i])],
                 props |-> [k \in {q \in DOMAIN h[x.v].props : h[x.v].props[q] # Undef} |->
                               StripTree(h, h[x.v].props[k])]]]

\* some member, at any depth, is outside the JSON variant set
ContainsNonJson(h, x) ==
    \/ x = Fn
    \/ \E i \in Reach(h, x) : Fn \in ValuesOf(h[i]) \cup ElemsOf(h[i])

\* d has the shape clone is specified to give s: arrays keep length and order,
\* objects keep their keys (all of them, or those not undefined)
RECURSIVE CloneShape(_, _, _, _)
CloneShape(h, s, d, keep) ==
    IF s.t # "ref" THEN d = s
    ELSE /\ d.t = "ref"
         /\ h[d.v].kind = h[s.v].kind
         /\ Len(h[d.v].elems) = Len(h[s.v].elems)
         /\ \A i \in 1..Len(h[s.v].elems) : CloneShape(h, h[s.v].elems[i], h[d.v].elems[i], keep)
         /\ DOMAIN h[d.v].props = {k \in DOMAIN h[s.v].props : keep \/ h[s.v].props[k] # Undef}
         /\ \A k \in DOMAIN h[d.v].props : CloneShape(h, h[s.v].props[k], h[d.v].props[k], keep)

\* no object below x has an undefined-valued property
NoAbsentEntry(h, x) == \A i \in Reach(h, x) : Undef \notin ValuesOf(h[i])

\* ---------------------------------------------------------------- the machine
RECURSIVE SeqsUpTo(_, _)
SeqsUpTo(S, n) ==
    IF n = 0 THEN {<<>>}
    ELSE LET shorter == SeqsUpTo(S, n - 1)
         IN  shorter \cup {Append(s, x) : s \in {q \in shorter : Len(q) = n - 1}, x \in S}

Min(x, y) == IF x < y THEN x ELSE y

EntriesLeft(h) == MaxEntries - HeapEntries(h, Len(h))

NoEq    == [p \in {} |-> FALSE]
NoGuard == [x \in {} |-> FALSE]
NoClone == [value |-> Undef, mode |-> FALSE, result |-> Undef, before |-> <<>>, snapshot |-> Undef]

\* the JSON values at hand: equals is declared on Json<T> arguments
JsonArgs(h) == {x \in Args(h) : isJsonValue(h, x)}

Init ==
    /\ heap = <<>>
    /\ held = {}
    /\ op = "none"
    /\ eqTable = NoEq
    /\ guardTable = NoGuard
    /\ cloneCall = NoClone

\* Construction stops at maxNodes nodes; the last node must leave the caller
\* holding no more values than the call to come takes (arity), every other
\* node being a member of one of them.
Usable(h, hd, maxNodes, arity) == Len(h) < maxNodes \/ Cardinality(hd) <= arity

\* the new node n is held; its members no longer are
Hold(h, hd, n) == (hd \ MemberIds(n)) \cup {Len(h) + 1}

\* an array literal whose elements are values already at hand
NewArray(atoms, maxNodes, arity) ==
    /\ op = "none"
    /\ Len(heap) < maxNodes
    /\ \E es \in SeqsUpTo(atoms \cup Refs(heap), Min(MaxLen, EntriesLeft(heap))) :
          /\ heap' = Append(heap, ArrNode(es))
          /\ held' = Hold(heap, held, ArrNode(es))
          /\ Usable(heap', held', maxNodes, arity)
    /\ UNCHANGED <<op, eqTable, guardTable, cloneCall>>

\* an object literal whose property values are values already at hand
NewObject(atoms, maxNodes, arity) ==
    /\ op = "none"
    /\ Len(heap) < maxNodes
    /\ \E ks \in SUBSET Keys :
          /\ Cardinality(ks) <= EntriesLeft(heap)
          /\ \E ps \in [ks -> atoms \cup Refs(heap)] :
                /\ heap' = Append(heap, ObjNode(ps))
                /\ held' = Hold(heap, held, ObjNode(ps))
                /\ Usable(heap', held', maxNodes, arity)
    /\ UNCHANGED <<op, eqTable, guardTable, cloneCall>>

\* the argument pairs of equals: JSON values that between them are all the
\* caller holds (a held node that is neither argument would take no part)
EqualsArgs(h, hd) ==
    {p \in JsonArgs(h) \X JsonArgs(h) : hd \subseteq {x.v : x \in {p[1], p[2]} \cap Refs(h)}}

\* equals(a, b, mode) applied to every such pair, both ways round and in both modes
CallEquals ==
    /\ op = "none"
    /\ Cardinality(held) <= 2
    /\ op' = "equals"
    /\ eqTable' = [p \in EqualsArgs(heap, held) \X BOOLEAN |->
                      equals(heap, p[1][1], p[1][2], p[2])]
    /\ UNCHANGED <<heap, held, guardTable, cloneCall>>

GuardRow(h, x) ==
    [isObject |-> isObject(h, x), isArray |-> isArray(h, x), isPrimitive |-> isPrimitive(x),
     isJsonValue |-> isJsonValue(h, x), isJsonObject |-> isJsonObject(h, x),
     isJsonArray |-> isJsonArray(h, x), isJsonPrimitive |-> isJsonPrimitive(x)]

\* the guards applied to the value the caller holds and to each of its members
CallGuards ==
    /\ op = "none"
    /\ Cardinality(held) <= 1
    /\ op' = "guards"
    /\ guardTable' = [x \in Args(heap) |-> GuardRow(heap, x)]
    /\ UNCHANGED <<heap, held, eqTable, cloneCall>>

\* the argument of clone: the value the caller holds
CloneArgs(h) == IF h = <<>> THEN ArgAtoms ELSE {Ref(Len(h))}

\* clone(value, mode): the caller then holds the result as well
CallClone ==
    /\ op = "none"
    /\ op' = "clone"
    /\ Cardinality(held) <= 1
    /\ \E value \in CloneArgs(heap), mode \in BOOLEAN :
          LET c == clone(heap, value, mode)
          IN  /\ heap' = c.heap
              /\ held' = IF c.val.t = "ref" THEN held \cup {c.val.v} ELSE held
              /\ cloneCall' = [value |-> value, mode |-> mode, result |-> c.val,
                               before |-> heap, snapshot |-> Tree(heap, value)]
    /\ UNCHANGED <<eqTable, guardTable>>

\* node[key] = x
SetProp(n, k, x) == [n EXCEPT !.props = [q \in DOMAIN n.props \cup {k} |-> IF q = k THEN x ELSE n.props[q]]]
\* node[index] = x
SetElem(n, j, x) == [n EXCEPT !.elems[j] = x]

\* one assignment into an array or object of the clone's result
Mutate ==
    /\ op = "clone"
    /\ op' = "mutate"
    /\ \E i \in Reach(heap, cloneCall.result), x \in MutationValues :
          \/ /\ heap[i].kind = "object"
             /\ \E k \in Keys : heap' = [heap EXCEPT ![i] = SetProp(@, k, x)]
          \/ /\ heap[i].kind = "array"
             /\ \E j \in 1..Len(heap[i].elems) : heap' = [heap EXCEPT ![i] = SetElem(@, j, x)]
    /\ UNCHANGED <<held, eqTable, guardTable, cloneCall>>

NextEquals ==
    \/ NewArray(JsonAtoms, MaxNodes, 2)
    \/ NewObject(JsonAtoms, MaxNodes, 2)
    \/ CallEquals

NextGuards ==
    \/ NewArray(MemberAtoms, MaxSrcNodes, 1)
    \/ NewObject(MemberAtoms, MaxSrcNodes, 1)
    \/ CallGuards

NextClone ==
    \/ NewArray(MemberAtoms, MaxSrcNodes, 1)
    \/ NewObject(MemberAtoms, MaxSrcNodes, 1)
    \/ CallClone
    \/ Mutate

Next == NextEquals \/ NextGuards \/ NextClone

Spec == Init /\ [][Next]_vars
SpecEquals == Init /\ [][NextEquals]_vars
SpecGuards == Init /\ [][NextGuards]_vars
SpecClone == Init /\ [][NextClone]_vars

\* ------------------------------------------------------------------ properties
ObjRefs(h) == {x \in Refs(h) : h[x.v].kind = "object"}
ArrRefs(h) == {x \in Refs(h) : h[x.v].kind = "array"}

\* the argument pairs equals was applied to
EqCalls == {q[1] : q \in DOMAIN eqTable}

\* what equals(a, b, m) returned
Eq(a, b, m) == eqTable[<<<<a, b>>, m>>]

\* the argument of the last clone was a valid JSON value
ValidSource == isJsonValue(cloneCall.before, cloneCall.value)

\* the objects and arrays strictly below x
Below(h, x) == Reach(h, x) \ {x.v}

\* C1: for a valid value and either mode, equals(value, clone(value, mode), mode) is true
C1_CloneEqualsSource ==
    (op = "clone" /\ ValidSource) =>
        equals(heap, cloneCall.value, cloneCall.result, cloneCall.mode)

C1_Witness ==
    /\ op = "clone"
    /\ ValidSource
    /\ cloneCall.value.t = "ref"
    /\ cloneCall.mode
    /\ \E i \in Below(heap, cloneCall.value) :
          heap[i].kind = "object" /\ Undef \in ValuesOf(heap[i])

\* C2: equals(a, b, mode) = equals(b, a, mode) for all JSON values a, b and both modes
C2_Symmetric ==
    op = "equals" =>
        \A p \in EqCalls, m \in BOOLEAN :
            Eq(p[1], p[2], m) = Eq(p[2], p[1], m)

\* C3: in the exact mode two objects whose key sets differ (undefined-valued
\* keys included) are unequal
C3_ExactKeySets ==
    op = "equals" =>
        \A p \in EqCalls \cap (ObjRefs(heap) \X ObjRefs(heap)) :
            DOMAIN heap[p[1].v].props # DOMAIN heap[p[2].v].props => ~Eq(p[1], p[2], TRUE)

\* C4: in the default mode equals(a, b) is true exactly when a and b, with every
\* undefined-valued property removed at every depth, are structurally identical
C4_DefaultModeStripsAbsent ==
    op = "equals" =>
        \A p \in EqCalls :
            Eq(p[1], p[2], FALSE) = (StripTree(heap, p[1]) = StripTree(heap, p[2]))

C4_Witness ==
    /\ op = "equals"
    /\ \E p \in EqCalls \cap (Refs(heap) \X Refs(heap)) :
          /\ Eq(p[1], p[2], FALSE)
          /\ Tree(heap, p[1]) # Tree(heap, p[2])
          /\ DOMAIN heap[p[1].v].props = DOMAIN heap[p[2].v].props
          /\ Len(heap[p[1].v].elems) = Len(heap[p[2].v].elems)
          /\ Below(heap, p[1]) # {}

\* C5: a clone of a valid value shares no array or object with it; neither clone
\* nor an assignment into the clone changes the value
C5_NoSharedStructure ==
    (op \in {"clone", "mutate"} /\ ValidSource) =>
        /\ Reach(heap, cloneCall.result) \cap Reach(heap, cloneCall.value) = {}
        /\ Tree(heap, cloneCall.value) = cloneCall.snapshot
        /\ SubSeq(heap, 1, Len(cloneCall.before)) = cloneCall.before

C5_Witness ==
    /\ op = "mutate"
    /\ ValidSource
    /\ cloneCall.value.t = "ref"
    /\ LET c == clone(cloneCall.before, cloneCall.value, cloneCall.mode)
       IN  \E i \in Below(c.heap, c.val) : heap[i] # c.heap[i]

\* C6: a clone of a valid value keeps array length and order at every depth and,
\* for every object, the keys of the source (mode true) or those whose value is
\* not undefined (mode false, so that no undefined-valued property is left)
C6_CloneShape ==
    (op = "clone" /\ ValidSource) =>
        /\ CloneShape(heap, cloneCall.value, cloneCall.result, cloneCall.mode)
        /\ ~cloneCall.mode => NoAbsentEntry(heap, cloneCall.result)

C6_Witness ==
    /\ op = "clone"
    /\ ValidSource
    /\ ~cloneCall.mode
    /\ cloneCall.value \in ArrRefs(cloneCall.before)
    /\ LET es == cloneCall.before[cloneCall.value.v].elems
       IN  /\ Len(es) = 2
           /\ es[1] # es[2]
           /\ \E j \in 1..2 : es[j] \in ObjRefs(cloneCall.before)
                                /\ Undef \in ValuesOf(cloneCall.before[es[j].v])

\* C7: the validating guards reject every value that holds a non-JSON member at
\* any depth; isArray and isObject answer from the top-level shape alone
C7_GuardTiers ==
    op = "guards" =>
        \A x \in Args(heap) :
            /\ ContainsNonJson(heap, x) =>
                  /\ ~guardTable[x].isJsonValue
                  /\ ~guardTable[x].isJsonObject
                  /\ ~guardTable[x].isJsonArray
            /\ guardTable[x].isArray = (x \in ArrRefs(heap))
            /\ x \in ObjRefs(heap) => guardTable[x].isObject
            /\ (x \in ArrRefs(heap) \/ x = Null) => ~guardTable[x].isObject

C7_Witness ==
    /\ op = "guards"
    /\ \E x \in ArrRefs(heap) :
          /\ Fn \notin ElemsOf(heap[x.v])
          /\ ContainsNonJson(heap, x)
          /\ guardTable[x].isArray
          /\ ~guardTable[x].isJsonArray

\* the values at one key (objects) or one index (arrays) of a and b
MemberPairs(h, a, b) ==
    {<<h[a.v].props[k], h[b.v].props[k]>> : k \in DOMAIN h[a.v].props \cap DOMAIN h[b.v].props}
    \cup {<<h[a.v].elems[i], h[b.v].elems[i]>> : i \in 1..Min(Len(h[a.v].elems), Len(h[b.v].elems))}

\* a and b are alike once undefined-valued properties are removed, and a member
\* object of one has more keys than the member object at the same place of the other
NestedAbsentDifference(h, a, b) ==
    /\ StripTree(h, a) = StripTree(h, b)
    /\ \E p \in MemberPairs(h, a, b) :
          /\ p[1] \in ObjRefs(h)
          /\ p[2] \in ObjRefs(h)
          /\ Cardinality(DOMAIN h[p[1].v].props) # Cardinality(DOMAIN h[p[2].v].props)

\* C8: the exact mode reaches every depth: two values that differ by an
\* undefined-valued property of a nested object are unequal in the exact mode
C8_ModeAtEveryDepth ==
    op = "equals" =>
        \A p \in EqCalls \cap (Refs(heap) \X Refs(heap)) :
            NestedAbsentDifference(heap, p[1], p[2]) => ~Eq(p[1], p[2], TRUE)

\* C9: whatever is equal in the exact mode is equal in the default mode
C9_ExactImpliesDefault ==
    op = "equals" =>
        \A p \in EqCalls :
            Eq(p[1], p[2], TRUE) => Eq(p[1], p[2], FALSE)

\* C10: clone of an array or object that fails validation returns the argument
\* itself and builds nothing; clone of a valid value returns only new nodes
C10_FreshOrIdentity ==
    op = "clone" =>
        /\ (/\ cloneCall.value.t = "ref"
            /\ ~isJsonArray(cloneCall.before, cloneCall.value)
            /\ ~isJsonObject(cloneCall.before, cloneCall.value))
              => (cloneCall.result = cloneCall.value /\ heap = cloneCall.before)
        /\ ValidSource =>
              Reach(heap, cloneCall.result) \cap (1..Len(cloneCall.before)) = {}

C10_Witness ==
    /\ op = "clone"
    /\ cloneCall.value.t = "ref"
    /\ ~ValidSource
    /\ Fn \notin ValuesOf(heap[cloneCall.value.v]) \cup ElemsOf(heap[cloneCall.value.v])
    /\ cloneCall.result = cloneCall.value

====
